---------------------------- MODULE Spec2Model ----------------------------
(***************************************************************************)
(* A model of the ENS160 driver (src/ens160.py): the bring-up sequence of  *)
(* Ens160.__init__/_initialize, the mode operations, the calibration       *)
(* setters, irq_setup and the measurement poll do_measure, together with   *)
(* the bus operations each of them issues and the chip registers those     *)
(* operations write.                                                       *)
(*                                                                         *)
(* Python floats are modelled as exact rationals (records [n, d] in lowest *)
(* terms); None is the empty sequence and a set attribute v is <<v>>.      *)
(***************************************************************************)
EXTENDS Integers, Sequences, FiniteSets, TLC

(***************************************************************************)
(* Bounds of the model.                                                    *)
(***************************************************************************)
\* the chip raises NEWGPR after at most MaxDelay unanswered status polls
\* (or never: Stuck)
MaxDelay == 2
\* time.time() returns one of 1..MaxTime
MaxTime == 2
\* busLog keeps the first MaxLog bus operations of a call (only the endless
\* firmware wait on a stuck chip exceeds it)
MaxLog == MaxDelay + 10

(***************************************************************************)
(* Register map, src/ens160.py lines 10-62.                                *)
(***************************************************************************)
ENS160_PART_ID == 352
REG_PART_ID == 0
REG_OP_MODE == 16
REG_CONFIG == 17
REG_COMMAND == 18
REG_TEMP_IN == 19
REG_RH_IN == 21
REG_STATUS == 32
REG_DATA_AQI == 33
REG_DATA_T == 48
REG_DATA_MISR == 56
REG_GPR_READ_START == 72
BIT_STATAS == 128
BIT_STATER == 64
BIT_VALIDITY == 12
SHIFT_VALIDITY == 2
BIT_NEWDAT == 2
BIT_NEWGPR == 1
VALIDITY_NORMAL == 0
VALIDITY_WARM_UP == 1
VALIDITY_INITIAL_STARTUP == 2
VALIDITY_INVALID == 3
COMMAND_GET_APPVER == 14
OPMODE_DEEP_SLEEP == 0
OPMODE_IDLE == 1
OPMODE_STANDARD == 2
OPMODE_RESET == 240

(***************************************************************************)
(* Numbers.                                                                *)
(***************************************************************************)
Byte == 0..255
Word16 == 0..65535

None == <<>>
Some(v) == <<v>>

Abs(x) == IF x < 0 THEN -x ELSE x

RECURSIVE Gcd(_, _)
Gcd(a, b) == IF b = 0 THEN a ELSE Gcd(b, a % b)

\* the rational n/d (d > 0) in lowest terms
Rat(n, d) ==
    LET g == Gcd(Abs(n), d)
    IN  [n |-> n \div g, d |-> d \div g]

\* a float given in hundredths (20.0 is Hundredths(2000))
Hundredths(h) == Rat(h, 100)

\* Python's round() of the rational n/d (d > 0): to the nearest integer,
\* a tie to the even one
RoundHalfEven(n, d) ==
    LET q == n \div d
        r == n % d
    IN  IF 2 * r < d THEN q
        ELSE IF 2 * r > d THEN q + 1
        ELSE IF q % 2 = 0 THEN q ELSE q + 1

\* Python's a & b and a | b on non-negative integers
RECURSIVE BitAnd(_, _)
BitAnd(a, b) ==
    IF a = 0 \/ b = 0 THEN 0
    ELSE (a % 2) * (b % 2) + 2 * BitAnd(a \div 2, b \div 2)

RECURSIVE BitOr(_, _)
BitOr(a, b) ==
    IF a = 0 THEN b
    ELSE IF b = 0 THEN a
    ELSE (IF a % 2 = 1 \/ b % 2 = 1 THEN 1 ELSE 0) + 2 * BitOr(a \div 2, b \div 2)

RECURSIVE Pow2(_)
Pow2(k) == IF k = 0 THEN 1 ELSE 2 * Pow2(k - 1)

ShiftLeft(a, k) == a * Pow2(k)
ShiftRight(a, k) == a \div Pow2(k)

BoolInt(b) == IF b THEN 1 ELSE 0


(***************************************************************************)
(* Inputs: what the chip may answer and what a caller may pass.            *)
(***************************************************************************)
\* gprDelay of a chip that never raises NEWGPR
Stuck == -1

\* identity words the chip at the address may answer
PartIds == {ENS160_PART_ID, 353, 0, 65535}

\* status bytes with NEWGPR clear seen while waiting for the firmware version
WaitStatuses == {0, 130}

\* GPR_READ4..6 contents
FirmwareBlocks == {<<5, 4, 6>>, <<0, 0, 255>>}

\* what the chip holds when data is fresh: DATA_AQI..DATA_ECO2 (5 bytes) and
\* DATA_T, DATA_RH (4 bytes)
Samples ==
    { <<<<42, 10, 0, 20, 0>>, <<0, 80, 0, 100>>>>,
      <<<<255, 255, 255, 52, 18>>, <<255, 255, 1, 0>>>> }

\* status bytes the calls of Spec see, one or more for each path of
\* do_measure; PollSpec polls with every byte
SampleStatuses == {0, 128, 130, 134, 139, 142, 194}

\* DATA_MISR contents
MisrBytes == {165}

Times == 1..MaxTime

\* arguments a caller passes to _set_operating_mode
ModeArgs == {OPMODE_DEEP_SLEEP, OPMODE_IDLE, OPMODE_STANDARD, OPMODE_RESET, 3, 255}

\* temperatures a caller sets, in hundredths of a degree Celsius
TemperatureArgs == {2550, 100000}

\* humidities a caller sets, in hundredths of a percent
HumidityArgs == {4567, 20000}

\* irq_setup arguments: enable, active_low, open_drain, assert_data, assert_gpr
IrqArgs ==
    { <<FALSE, TRUE, TRUE, TRUE, FALSE>>,
      <<TRUE, TRUE, TRUE, TRUE, FALSE>>,
      <<TRUE, FALSE, FALSE, FALSE, TRUE>> }

DEFAULT_TEMPERATURE == Hundredths(2000)
DEFAULT_HUMIDITY == Hundredths(5000)

(***************************************************************************)
(* State.                                                                  *)
(***************************************************************************)
VARIABLES
    pc,          \* where the constructor is, then "ready" or "failed"
    error,       \* the exception the constructor or the last call raised
    firmware,    \* Ens160._firmware: None or the three version bytes
    reading,     \* Ens160._aqi, _tvoc, _eco2, _ref_temp, _ref_humidity,
                 \* _validity, _time
    opModeReg,   \* chip: the last value written to REG_OP_MODE
    configReg,   \* chip: the last value written to REG_CONFIG
    tempInReg,   \* chip: the last word written to REG_TEMP_IN
    rhInReg,     \* chip: the last word written to REG_RH_IN
    gprDelay,    \* chip: status polls left before NEWGPR rises, or Stuck
    busLog,      \* the bus operations of the constructor or of the last call
    lastCall,    \* the constructor ("init") or the last method called
    lastResult,  \* what the last do_measure returned
    modeReq,     \* the mode passed to the last _set_operating_mode call
    tempReq,     \* the temperature passed to the last ref_temp setter call
    rhReq        \* the humidity passed to the last ref_humidity setter call

vars ==
    <<pc, error, firmware, reading, opModeReg, configReg, tempInReg, rhInReg,
      gprDelay, busLog, lastCall, lastResult, modeReq, tempReq, rhReq>>

\* one bus operation: "wb" write_byte_data, "ww" write_word_data,
\* "rb" read_byte_data, "rw" read_word_data, "rblk" read_i2c_block_data;
\* val is what was written or what came back
BusOp(op, reg, val) == [op |-> op, reg |-> reg, val |-> val]

Record(log, e) == IF Len(log) < MaxLog THEN Append(log, e) ELSE log

NoReading ==
    [aqi |-> None, tvoc |-> None, eco2 |-> None, ref_temp |-> None,
     ref_humidity |-> None, validity |-> None, time |-> None]

\* Ens160.__init__ up to its call of _initialize
Init ==
    /\ pc = "reset"
    /\ error = "none"
    /\ firmware = None
    /\ reading = NoReading
    /\ opModeReg \in {OPMODE_DEEP_SLEEP, OPMODE_IDLE, OPMODE_STANDARD}
    /\ configReg = 0
    /\ tempInReg = 0
    /\ rhInReg = 0
    /\ gprDelay = Stuck
    /\ busLog = <<>>
    /\ lastCall = "init"
    /\ lastResult = FALSE
    /\ modeReq = OPMODE_DEEP_SLEEP
    /\ tempReq = None
    /\ rhReq = None

(***************************************************************************)
(* The methods the constructor shares with the callers.  log is the bus    *)
(* log of the running call so far.                                         *)
(***************************************************************************)
\* a slip: the reset code let through
ValidModes_reset == {OPMODE_DEEP_SLEEP, OPMODE_IDLE, OPMODE_STANDARD, OPMODE_RESET}

ValidModes == {OPMODE_DEEP_SLEEP, OPMODE_IDLE, OPMODE_STANDARD}

set_operating_mode(mode, log) ==
    /\ modeReq' = mode
    /\ IF mode \notin ValidModes
       THEN /\ error' = "ValueError"
            /\ busLog' = log
            /\ opModeReg' = opModeReg
       ELSE /\ error' = "none"
            /\ busLog' = Record(log, BusOp("wb", REG_OP_MODE, <<mode>>))
            /\ opModeReg' = mode

IrqConfig(a) ==
    BitOr(BitOr(BitOr(BitOr(ShiftLeft(BoolInt(a[1]), 0),
                            ShiftLeft(BoolInt(a[2]), 6)),
                      ShiftLeft(BoolInt(a[3]), 5)),
                ShiftLeft(BoolInt(a[4]), 1)),
          ShiftLeft(BoolInt(a[5]), 3))

irq_setup(a, log) ==
    /\ busLog' = Record(log, BusOp("wb", REG_CONFIG, <<IrqConfig(a)>>))
    /\ configReg' = IrqConfig(a)
    /\ error' = "none"

\* a slip: kelvin taken as temperature + 273
TemperatureWord_273(t) == RoundHalfEven((t.n + 273 * t.d) * 64, t.d)

\* round(kelvin * 64.0) with kelvin = temperature + 273.15
TemperatureWord(t) == RoundHalfEven((t.n * 100 + 27315 * t.d) * 64, 100 * t.d)

\* a slip: the humidity scaled by 256
HumidityWord_256(h) == RoundHalfEven(h.n * 256, h.d)

\* round(humidity * 512)
HumidityWord(h) == RoundHalfEven(h.n * 512, h.d)

\* the setter of ref_temp: the word goes to the bus as computed; a 16-bit
\* register keeps its low 16 bits
set_ref_temp(t, log) ==
    /\ busLog' = Record(log, BusOp("ww", REG_TEMP_IN, <<TemperatureWord(t)>>))
    /\ tempInReg' = TemperatureWord(t) % 65536
    /\ tempReq' = Some(t)
    /\ error' = "none"

set_ref_humidity(h, log) ==
    /\ busLog' = Record(log, BusOp("ww", REG_RH_IN, <<HumidityWord(h)>>))
    /\ rhInReg' = HumidityWord(h) % 65536
    /\ rhReq' = Some(h)
    /\ error' = "none"

\* where the constructor goes after a step: on, or out with the exception
Step(next) == pc' = IF error' = "none" THEN next ELSE "failed"

(***************************************************************************)
(* Ens160._initialize, one action per bus operation.                       *)
(***************************************************************************)
InitReset ==
    /\ pc = "reset"
    /\ busLog' = Record(busLog, BusOp("wb", REG_OP_MODE, <<OPMODE_RESET>>))
    /\ opModeReg' = OPMODE_RESET
    /\ pc' = "idle"
    /\ UNCHANGED <<error, firmware, reading, configReg, tempInReg, rhInReg,
                   gprDelay, lastCall, lastResult, modeReq, tempReq, rhReq>>

InitIdle ==
    /\ pc = "idle"
    /\ set_operating_mode(OPMODE_IDLE, busLog)
    /\ Step("part_id")
    /\ UNCHANGED <<firmware, reading, configReg, tempInReg, rhInReg,
                   gprDelay, lastCall, lastResult, tempReq, rhReq>>

\* a slip: the identity read but not compared
InitPartId_unchecked ==
    /\ pc = "part_id"
    /\ \E part_id \in PartIds :
          busLog' = Record(busLog, BusOp("rw", REG_PART_ID, <<part_id>>))
    /\ pc' = "command"
    /\ UNCHANGED <<error, firmware, reading, opModeReg, configReg, tempInReg,
                   rhInReg, gprDelay, lastCall, lastResult, modeReq, tempReq,
                   rhReq>>

InitPartId ==
    /\ pc = "part_id"
    /\ \E part_id \in PartIds :
          /\ busLog' = Record(busLog, BusOp("rw", REG_PART_ID, <<part_id>>))
          /\ error' = IF part_id # ENS160_PART_ID THEN "ValueError" ELSE "none"
    /\ Step("command")
    /\ UNCHANGED <<firmware, reading, opModeReg, configReg, tempInReg,
                   rhInReg, gprDelay, lastCall, lastResult, modeReq, tempReq,
                   rhReq>>

InitCommand ==
    /\ pc = "command"
    /\ busLog' = Record(busLog, BusOp("wb", REG_COMMAND, <<COMMAND_GET_APPVER>>))
    /\ gprDelay' \in (0..MaxDelay) \cup {Stuck}
    /\ pc' = "wait_poll"
    /\ UNCHANGED <<error, firmware, reading, opModeReg, configReg, tempInReg,
                   rhInReg, lastCall, lastResult, modeReq, tempReq, rhReq>>

\* _wait_on_status_bit: one read of the status register
WaitPoll(bit) ==
    /\ pc = "wait_poll"
    /\ \E s \in WaitStatuses :
          LET status == IF gprDelay = 0 THEN BitOr(s, BIT_NEWGPR) ELSE s
          IN  /\ busLog' = Record(busLog, BusOp("rb", REG_STATUS, <<status>>))
              /\ pc' = IF BitAnd(status, bit) # 0 THEN "firmware" ELSE "wait_sleep"
    /\ gprDelay' = IF gprDelay > 0 THEN gprDelay - 1 ELSE gprDelay
    /\ UNCHANGED <<error, firmware, reading, opModeReg, configReg, tempInReg,
                   rhInReg, lastCall, lastResult, modeReq, tempReq, rhReq>>

\* _wait_on_status_bit: the sleep between two reads
WaitSleep ==
    /\ pc = "wait_sleep"
    /\ pc' = "wait_poll"
    /\ UNCHANGED <<error, firmware, reading, opModeReg, configReg, tempInReg,
                   rhInReg, gprDelay, busLog, lastCall, lastResult, modeReq,
                   tempReq, rhReq>>

InitWait == WaitPoll(BIT_NEWGPR)

InitFirmware ==
    /\ pc = "firmware"
    /\ \E data \in FirmwareBlocks :
          /\ busLog' = Record(busLog, BusOp("rblk", REG_GPR_READ_START + 4, data))
          /\ firmware' = Some(data)
    /\ pc' = "irq"
    /\ UNCHANGED <<error, reading, opModeReg, configReg, tempInReg, rhInReg,
                   gprDelay, lastCall, lastResult, modeReq, tempReq, rhReq>>

\* a slip: the interrupt line left enabled
InitIrq_enabled ==
    /\ pc = "irq"
    /\ irq_setup(<<TRUE, TRUE, TRUE, TRUE, FALSE>>, busLog)
    /\ Step("ref_temp")
    /\ UNCHANGED <<firmware, reading, opModeReg, tempInReg, rhInReg,
                   gprDelay, lastCall, lastResult, modeReq, tempReq, rhReq>>

InitIrq ==
    /\ pc = "irq"
    /\ irq_setup(<<FALSE, TRUE, TRUE, TRUE, FALSE>>, busLog)
    /\ Step("ref_temp")
    /\ UNCHANGED <<firmware, reading, opModeReg, tempInReg, rhInReg,
                   gprDelay, lastCall, lastResult, modeReq, tempReq, rhReq>>

InitRefTemp ==
    /\ pc = "ref_temp"
    /\ set_ref_temp(DEFAULT_TEMPERATURE, busLog)
    /\ Step("ref_humidity")
    /\ UNCHANGED <<firmware, reading, opModeReg, configReg, rhInReg,
                   gprDelay, lastCall, lastResult, modeReq, rhReq>>

InitRefHumidity ==
    /\ pc = "ref_humidity"
    /\ set_ref_humidity(DEFAULT_HUMIDITY, busLog)
    /\ Step("wakeup")
    /\ UNCHANGED <<firmware, reading, opModeReg, configReg, tempInReg,
                   gprDelay, lastCall, lastResult, modeReq, tempReq>>

InitWakeup ==
    /\ pc = "wakeup"
    /\ set_operating_mode(OPMODE_STANDARD, busLog)
    /\ Step("ready")
    /\ UNCHANGED <<firmware, reading, configReg, tempInReg, rhInReg,
                   gprDelay, lastCall, lastResult, tempReq, rhReq>>

BringUp ==
    \/ InitReset
    \/ InitIdle
    \/ InitPartId
    \/ InitCommand
    \/ InitWait
    \/ WaitSleep
    \/ InitFirmware
    \/ InitIrq
    \/ InitRefTemp
    \/ InitRefHumidity
    \/ InitWakeup

(***************************************************************************)
(* The methods a caller invokes on the constructed object.                 *)
(***************************************************************************)
\* a direct call of _set_operating_mode
SetOperatingMode ==
    /\ pc = "ready"
    /\ \E mode \in ModeArgs : set_operating_mode(mode, <<>>)
    /\ lastCall' = "set_operating_mode"
    /\ UNCHANGED <<pc, firmware, reading, configReg, tempInReg, rhInReg,
                   gprDelay, lastResult, tempReq, rhReq>>

\* a slip: shutdown leaving the chip in Idle
shutdown_idle ==
    /\ pc = "ready"
    /\ set_operating_mode(OPMODE_IDLE, <<>>)
    /\ lastCall' = "shutdown"
    /\ UNCHANGED <<pc, firmware, reading, configReg, tempInReg, rhInReg,
                   gprDelay, lastResult, tempReq, rhReq>>

shutdown ==
    /\ pc = "ready"
    /\ set_operating_mode(OPMODE_DEEP_SLEEP, <<>>)
    /\ lastCall' = "shutdown"
    /\ UNCHANGED <<pc, firmware, reading, configReg, tempInReg, rhInReg,
                   gprDelay, lastResult, tempReq, rhReq>>

idle ==
    /\ pc = "ready"
    /\ set_operating_mode(OPMODE_IDLE, <<>>)
    /\ lastCall' = "idle"
    /\ UNCHANGED <<pc, firmware, reading, configReg, tempInReg, rhInReg,
                   gprDelay, lastResult, tempReq, rhReq>>

wakeup ==
    /\ pc = "ready"
    /\ set_operating_mode(OPMODE_STANDARD, <<>>)
    /\ lastCall' = "wakeup"
    /\ UNCHANGED <<pc, firmware, reading, configReg, tempInReg, rhInReg,
                   gprDelay, lastResult, tempReq, rhReq>>

IrqSetup ==
    /\ pc = "ready"
    /\ \E a \in IrqArgs : irq_setup(a, <<>>)
    /\ lastCall' = "irq_setup"
    /\ UNCHANGED <<pc, firmware, reading, opModeReg, tempInReg, rhInReg,
                   gprDelay, lastResult, modeReq, tempReq, rhReq>>

\* a slip: the setter also caching what it was given
SetRefTemp_caching ==
    /\ pc = "ready"
    /\ \E t \in TemperatureArgs :
          /\ set_ref_temp(Hundredths(t), <<>>)
          /\ reading' = [reading EXCEPT !.ref_temp = Some(Hundredths(t))]
    /\ lastCall' = "set_ref_temp"
    /\ UNCHANGED <<pc, firmware, opModeReg, configReg, rhInReg, gprDelay,
                   lastResult, modeReq, rhReq>>

SetRefTemp ==
    /\ pc = "ready"
    /\ \E t \in TemperatureArgs : set_ref_temp(Hundredths(t), <<>>)
    /\ lastCall' = "set_ref_temp"
    /\ UNCHANGED <<pc, firmware, reading, opModeReg, configReg, rhInReg,
                   gprDelay, lastResult, modeReq, rhReq>>

SetRefHumidity ==
    /\ pc = "ready"
    /\ \E h \in HumidityArgs : set_ref_humidity(Hundredths(h), <<>>)
    /\ lastCall' = "set_ref_humidity"
    /\ UNCHANGED <<pc, firmware, reading, opModeReg, configReg, tempInReg,
                   gprDelay, lastResult, modeReq, tempReq>>

\* the getters of ref_temp and ref_humidity
ref_temp == reading.ref_temp
ref_humidity == reading.ref_humidity

is_warm_up == reading.validity = Some(VALIDITY_WARM_UP)
is_initial_startup == reading.validity = Some(VALIDITY_INITIAL_STARTUP)

(***************************************************************************)
(* do_measure.                                                             *)
(***************************************************************************)
\* a slip: the two bytes taken high byte first
Word_swapped(data, lo, hi) == BitOr(data[hi + 1], ShiftLeft(data[lo + 1], 8))

\* data[lo] | (data[hi] << 8), indices as in Python (from 0)
Word(data, lo, hi) == BitOr(data[lo + 1], ShiftLeft(data[hi + 1], 8))

\* (reference_temp / 64.0) - 273.15
DecodeTemperature(raw) == Rat(raw * 100 - 27315 * 64, 6400)

\* raw / 512.0
DecodeHumidity(raw) == Rat(raw, 512)

\* a slip: the validity bits masked but not shifted down
Validity_unshifted(status) == BitAnd(status, BIT_VALIDITY)

Validity(status) == ShiftRight(BitAnd(status, BIT_VALIDITY), SHIFT_VALIDITY)

\* the early returns of do_measure
Running(status) == BitAnd(status, BIT_STATAS) # 0

\* a slip: the error flag looked for one bit too low
Errored_bit5(status) == BitAnd(status, 32) # 0

Errored(status) == BitAnd(status, BIT_STATER) # 0

\* a slip: NEWGPR tested where NEWDAT is meant
NewData_gpr(status) == BitAnd(status, BIT_NEWGPR) # 0

NewData(status) == BitAnd(status, BIT_NEWDAT) # 0

\* a slip: the Invalid class not turned away
ReadsData_invalid(status) ==
    /\ Running(status)
    /\ ~Errored(status)
    /\ NewData(status)

ReadsData(status) ==
    /\ Running(status)
    /\ ~Errored(status)
    /\ Validity(status) # VALIDITY_INVALID
    /\ NewData(status)

\* a slip: eCO2 taken one byte too early
Decoded_shifted(status, aq, rp, now) ==
    [aqi |-> Some(aq[1]),
     tvoc |-> Some(Word(aq, 1, 2)),
     eco2 |-> Some(Word(aq, 2, 3)),
     ref_temp |-> Some(DecodeTemperature(Word(rp, 0, 1))),
     ref_humidity |-> Some(DecodeHumidity(Word(rp, 2, 3))),
     validity |-> Some(Validity(status)),
     time |-> Some(now)]

\* the Reading do_measure stores from the two blocks
Decoded(status, aq, rp, now) ==
    [aqi |-> Some(aq[1]),
     tvoc |-> Some(Word(aq, 1, 2)),
     eco2 |-> Some(Word(aq, 3, 4)),
     ref_temp |-> Some(DecodeTemperature(Word(rp, 0, 1))),
     ref_humidity |-> Some(DecodeHumidity(Word(rp, 2, 3))),
     validity |-> Some(Validity(status)),
     time |-> Some(now)]

\* a slip: the checksum byte, which nothing uses, not read
Measure_nomisr(statuses) ==
    /\ pc = "ready"
    /\ \E status \in statuses :
          LET rd == <<BusOp("rb", REG_STATUS, <<status>>)>>
          IN  IF ReadsData(status)
              THEN \E sample \in Samples, now \in Times :
                      /\ busLog' = rd \o
                            << BusOp("rblk", REG_DATA_AQI, sample[1]),
                               BusOp("rblk", REG_DATA_T, sample[2]) >>
                      /\ reading' = Decoded(status, sample[1], sample[2], now)
                      /\ lastResult' = TRUE
              ELSE /\ busLog' = rd
                   /\ reading' = reading
                   /\ lastResult' = FALSE
    /\ lastCall' = "do_measure"
    /\ error' = "none"
    /\ UNCHANGED <<pc, firmware, opModeReg, configReg, tempInReg, rhInReg,
                   gprDelay, modeReq, tempReq, rhReq>>

Measure(statuses) ==
    /\ pc = "ready"
    /\ \E status \in statuses :
          LET rd == <<BusOp("rb", REG_STATUS, <<status>>)>>
          IN  IF ReadsData(status)
              THEN \E sample \in Samples, misr \in MisrBytes, now \in Times :
                      /\ busLog' = rd \o
                            << BusOp("rblk", REG_DATA_AQI, sample[1]),
                               BusOp("rblk", REG_DATA_T, sample[2]),
                               BusOp("rb", REG_DATA_MISR, <<misr>>) >>
                      /\ reading' = Decoded(status, sample[1], sample[2], now)
                      /\ lastResult' = TRUE
              ELSE /\ busLog' = rd
                   /\ reading' = reading
                   /\ lastResult' = FALSE
    /\ lastCall' = "do_measure"
    /\ error' = "none"
    /\ UNCHANGED <<pc, firmware, opModeReg, configReg, tempInReg, rhInReg,
                   gprDelay, modeReq, tempReq, rhReq>>

\* do_measure on any status byte
do_measure == Measure(Byte)

\* do_measure on the sampled status bytes
do_measure_sampled == Measure(SampleStatuses)

Calls ==
    \/ SetOperatingMode
    \/ shutdown
    \/ idle
    \/ wakeup
    \/ IrqSetup
    \/ SetRefTemp
    \/ SetRefHumidity
    \/ do_measure_sampled

Next == BringUp \/ Calls

Spec == Init /\ [][Next]_vars

\* the constructor, then polls with every status byte
PollNext == BringUp \/ do_measure

PollSpec == Init /\ [][PollNext]_vars

\* the constructor alone, each of its steps taken when it can be
BringUpSpec == Init /\ [][BringUp]_vars /\ WF_vars(BringUp)

(***************************************************************************)
(* The bus failing.  Any SMBus call may raise (OSError); the driver        *)
(* catches nothing, so the error leaves the constructor or the method at   *)
(* that call.  A failed call is logged as "raise" on its register.         *)
(***************************************************************************)
Raised(reg) == BusOp("raise", reg, <<>>)

\* the register of the bus call the constructor makes at each place
InitReg(at) ==
    CASE at \in {"reset", "idle", "wakeup"} -> REG_OP_MODE
      [] at = "part_id" -> REG_PART_ID
      [] at = "command" -> REG_COMMAND
      [] at = "wait_poll" -> REG_STATUS
      [] at = "firmware" -> REG_GPR_READ_START + 4
      [] at = "irq" -> REG_CONFIG
      [] at = "ref_temp" -> REG_TEMP_IN
      [] at = "ref_humidity" -> REG_RH_IN

\* a slip: the failed call swallowed and tried again
InitFault_retried ==
    /\ pc \in {"reset", "idle", "part_id", "command", "wait_poll", "firmware",
               "irq", "ref_temp", "ref_humidity", "wakeup"}
    /\ busLog' = Append(busLog, Raised(InitReg(pc)))
    /\ UNCHANGED <<pc, error, firmware, reading, opModeReg, configReg,
                   tempInReg, rhInReg, gprDelay, lastCall, lastResult, modeReq,
                   tempReq, rhReq>>

\* the bus call of a step of _initialize raising
InitFault ==
    /\ pc \in {"reset", "idle", "part_id", "command", "wait_poll", "firmware",
               "irq", "ref_temp", "ref_humidity", "wakeup"}
    /\ busLog' = Append(busLog, Raised(InitReg(pc)))
    /\ error' = "OSError"
    /\ pc' = "failed"
    /\ modeReq' = CASE pc = "idle" -> OPMODE_IDLE
                    [] pc = "wakeup" -> OPMODE_STANDARD
                    [] OTHER -> modeReq
    /\ tempReq' = IF pc = "ref_temp" THEN Some(DEFAULT_TEMPERATURE) ELSE tempReq
    /\ rhReq' = IF pc = "ref_humidity" THEN Some(DEFAULT_HUMIDITY) ELSE rhReq
    /\ UNCHANGED <<firmware, reading, opModeReg, configReg, tempInReg, rhInReg,
                   gprDelay, lastCall, lastResult>>

\* the bus log of a do_measure whose k-th bus call raises
FaultLog(status, sample, k) ==
    CASE k = 1 -> <<Raised(REG_STATUS)>>
      [] k = 2 -> << BusOp("rb", REG_STATUS, <<status>>), Raised(REG_DATA_AQI) >>
      [] k = 3 -> << BusOp("rb", REG_STATUS, <<status>>),
                     BusOp("rblk", REG_DATA_AQI, sample[1]),
                     Raised(REG_DATA_T) >>
      [] k = 4 -> << BusOp("rb", REG_STATUS, <<status>>),
                     BusOp("rblk", REG_DATA_AQI, sample[1]),
                     BusOp("rblk", REG_DATA_T, sample[2]),
                     Raised(REG_DATA_MISR) >>

\* a slip: each block stored as soon as it is read
MeasureFault_torn(statuses) ==
    /\ pc = "ready"
    /\ \E status \in statuses, sample \in Samples, k \in 1..4, now \in Times :
          /\ k > 1 => ReadsData(status)
          /\ busLog' = FaultLog(status, sample, k)
          /\ reading' =
                IF k = 4
                THEN Decoded(status, sample[1], sample[2], now)
                ELSE IF k = 3
                THEN [reading EXCEPT !.aqi = Some(sample[1][1]),
                                     !.tvoc = Some(Word(sample[1], 1, 2)),
                                     !.eco2 = Some(Word(sample[1], 3, 4))]
                ELSE reading
    /\ lastCall' = "do_measure"
    /\ error' = "OSError"
    /\ UNCHANGED <<pc, firmware, opModeReg, configReg, tempInReg, rhInReg,
                   gprDelay, lastResult, modeReq, tempReq, rhReq>>

\* do_measure with its k-th bus call raising: the three data reads come
\* before the first assignment
MeasureFault(statuses) ==
    /\ pc = "ready"
    /\ \E status \in statuses, sample \in Samples, k \in 1..4 :
          /\ k > 1 => ReadsData(status)
          /\ busLog' = FaultLog(status, sample, k)
    /\ lastCall' = "do_measure"
    /\ error' = "OSError"
    /\ UNCHANGED <<pc, firmware, reading, opModeReg, configReg, tempInReg,
                   rhInReg, gprDelay, lastResult, modeReq, tempReq, rhReq>>

do_measure_fault == MeasureFault(SampleStatuses)

\* the constructor and the polls on a bus that may fail
FaultNext ==
    \/ BringUp
    \/ InitFault
    \/ do_measure_sampled
    \/ do_measure_fault

FaultSpec == Init /\ [][FaultNext]_vars

(***************************************************************************)
(* The round trip of the compensation values: a caller sets one, the chip  *)
(* reports in DATA_T and DATA_RH the words it holds in TEMP_IN and RH_IN,  *)
(* and the next poll decodes them.  One round trip in a run.               *)
(***************************************************************************)
\* the range of temperatures set: from MaxFrost degrees below zero to
\* MaxCelsius degrees Celsius
MaxFrost == 40
MaxCelsius == 85

\* temperatures in hundredths over the range, a grid of 1/640 degree that
\* holds the ties of round() (649/640, 659/640), and the ends of the 16-bit
\* word: -273.15 encodes to 0, 750.84 to 65535, 750.85 to 65536
CodecTemperatures ==
    { Hundredths(c) : c \in (0 - MaxFrost * 100)..(MaxCelsius * 100) }
      \cup { Rat(n, 640) : n \in 640..660 }
      \cup { Hundredths(c) : c \in {-27316, -27315, 75084, 75085, 100000} }

\* humidities in hundredths over 0..100 %, a grid of 1/1024 % that holds
\* the ties of round(), and one out of range
CodecHumidities ==
    { Hundredths(h) : h \in 0..10000 }
      \cup { Rat(m, 1024) : m \in 51200..51204 }
      \cup { Hundredths(20000) }

\* DATA_T and DATA_RH as the chip reports them: the words of TEMP_IN and
\* RH_IN, low byte first
LoopBack ==
    << tempInReg % 256, tempInReg \div 256, rhInReg % 256, rhInReg \div 256 >>

CodecSetRefTemp ==
    /\ pc = "ready"
    /\ lastCall = "init"
    /\ \E t \in CodecTemperatures : set_ref_temp(t, <<>>)
    /\ lastCall' = "set_ref_temp"
    /\ UNCHANGED <<pc, firmware, reading, opModeReg, configReg, rhInReg,
                   gprDelay, lastResult, modeReq, rhReq>>

CodecSetRefHumidity ==
    /\ pc = "ready"
    /\ lastCall = "init"
    /\ \E h \in CodecHumidities : set_ref_humidity(h, <<>>)
    /\ lastCall' = "set_ref_humidity"
    /\ UNCHANGED <<pc, firmware, reading, opModeReg, configReg, tempInReg,
                   gprDelay, lastResult, modeReq, tempReq>>

\* do_measure on fresh data, the reference block being the loop-back
CodecPoll ==
    /\ pc = "ready"
    /\ lastCall \in {"set_ref_temp", "set_ref_humidity"}
    /\ \E now \in Times :
          /\ busLog' = << BusOp("rb", REG_STATUS, <<130>>),
                          BusOp("rblk", REG_DATA_AQI, <<42, 10, 0, 20, 0>>),
                          BusOp("rblk", REG_DATA_T, LoopBack),
                          BusOp("rb", REG_DATA_MISR, <<165>>) >>
          /\ reading' = Decoded(130, <<42, 10, 0, 20, 0>>, LoopBack, now)
    /\ lastResult' = TRUE
    /\ lastCall' = "do_measure"
    /\ error' = "none"
    /\ UNCHANGED <<pc, firmware, opModeReg, configReg, tempInReg, rhInReg,
                   gprDelay, modeReq, tempReq, rhReq>>

CodecNext ==
    \/ BringUp
    \/ CodecSetRefTemp
    \/ CodecSetRefHumidity
    \/ CodecPoll

CodecSpec == Init /\ [][CodecNext]_vars

(***************************************************************************)
(* The sample programs measure.py, measure_irq.py and measure_idle.py.     *)
(* Each constructs the driver, runs a loop inside try, and calls           *)
(* shutdown() after the try statement.  pc goes on from "ready" through    *)
(* the places of the program to "exited"; the bus may fail in every driver *)
(* call and a KeyboardInterrupt may arrive at every place.                 *)
(***************************************************************************)
\* the places inside the try statement
InTry ==
    {"measure.loop", "measure.print", "measure_irq.loop", "measure_irq.print",
     "measure_idle.loop", "measure_idle.print", "measure_idle.idle",
     "measure_idle.wakeup"}

\* the places after construction that no try statement covers
OutsideTry == {"ready", "measure_irq.wakeup", "except", "cleanup"}

\* ens160.irq_setup(True) at here: on to next, or out of the program
ScriptIrqSetup(here, next) ==
    /\ pc = here
    /\ \/ /\ irq_setup(<<TRUE, TRUE, TRUE, TRUE, FALSE>>, <<>>)
          /\ pc' = next
       \/ /\ busLog' = <<Raised(REG_CONFIG)>>
          /\ error' = "OSError"
          /\ configReg' = configReg
          /\ pc' = "exited"
    /\ lastCall' = "irq_setup"
    /\ UNCHANGED <<firmware, reading, opModeReg, tempInReg, rhInReg, gprDelay,
                   lastResult, modeReq, tempReq, rhReq>>

\* a mode call (idle, wakeup, shutdown) at here: on to next, or to where
\* its exception goes
ScriptMode(here, name, mode, next, raised) ==
    /\ pc = here
    /\ \/ /\ set_operating_mode(mode, <<>>)
          /\ pc' = next
       \/ /\ busLog' = <<Raised(REG_OP_MODE)>>
          /\ error' = "OSError"
          /\ modeReq' = mode
          /\ opModeReg' = opModeReg
          /\ pc' = raised
    /\ lastCall' = name
    /\ UNCHANGED <<firmware, reading, configReg, tempInReg, rhInReg, gprDelay,
                   lastResult, tempReq, rhReq>>

\* new_data = ens160.do_measure() at here: to fresh on True, to stale on
\* False, to the handler when the bus fails
ScriptPoll(here, fresh, stale) ==
    /\ pc = here
    /\ \/ /\ \E status \in SampleStatuses :
                LET rd == <<BusOp("rb", REG_STATUS, <<status>>)>>
                IN  IF ReadsData(status)
                    THEN \E sample \in Samples, misr \in MisrBytes, now \in Times :
                            /\ busLog' = rd \o
                                  << BusOp("rblk", REG_DATA_AQI, sample[1]),
                                     BusOp("rblk", REG_DATA_T, sample[2]),
                                     BusOp("rb", REG_DATA_MISR, <<misr>>) >>
                            /\ reading' = Decoded(status, sample[1], sample[2], now)
                            /\ lastResult' = TRUE
                            /\ pc' = fresh
                    ELSE /\ busLog' = rd
                         /\ reading' = reading
                         /\ lastResult' = FALSE
                         /\ pc' = stale
          /\ error' = "none"
       \/ /\ \E status \in SampleStatuses, sample \in Samples, k \in 1..4 :
                /\ k > 1 => ReadsData(status)
                /\ busLog' = FaultLog(status, sample, k)
          /\ reading' = reading
          /\ lastResult' = lastResult
          /\ error' = "OSError"
          /\ pc' = "except"
    /\ lastCall' = "do_measure"
    /\ UNCHANGED <<firmware, opModeReg, configReg, tempInReg, rhInReg,
                   gprDelay, modeReq, tempReq, rhReq>>

\* the print of a reading at here: ens160.time, is_initial_startup,
\* is_warm_up, aqi, tvoc and eco2 are read; fromtimestamp(None) and "%d" of
\* None raise TypeError
ScriptPrint(here, next) ==
    /\ pc = here
    /\ lastCall' = "getters"
    /\ IF reading.time = None \/ reading.aqi = None \/ reading.tvoc = None
          \/ reading.eco2 = None
       THEN /\ error' = "TypeError"
            /\ pc' = "except"
       ELSE /\ error' = "none"
            /\ pc' = next
    /\ UNCHANGED <<firmware, reading, opModeReg, configReg, tempInReg, rhInReg,
                   gprDelay, busLog, lastResult, modeReq, tempReq, rhReq>>

\* measure.py
MeasureSetup == ScriptIrqSetup("ready", "measure.loop")
MeasurePoll == ScriptPoll("measure.loop", "measure.print", "measure.loop")
MeasurePrint == ScriptPrint("measure.print", "measure.loop")

\* measure_irq.py: the print follows the poll whatever it returned
IrqSetupCall == ScriptIrqSetup("ready", "measure_irq.wakeup")
IrqWakeup ==
    ScriptMode("measure_irq.wakeup", "wakeup", OPMODE_STANDARD,
               "measure_irq.loop", "exited")
IrqPoll == ScriptPoll("measure_irq.loop", "measure_irq.print", "measure_irq.print")
IrqPrint == ScriptPrint("measure_irq.print", "measure_irq.loop")

\* measure_idle.py
IdleEnter ==
    /\ pc = "ready"
    /\ pc' = "measure_idle.loop"
    /\ UNCHANGED <<error, firmware, reading, opModeReg, configReg, tempInReg,
                   rhInReg, gprDelay, busLog, lastCall, lastResult, modeReq,
                   tempReq, rhReq>>
IdlePoll == ScriptPoll("measure_idle.loop", "measure_idle.print", "measure_idle.loop")
IdlePrint == ScriptPrint("measure_idle.print", "measure_idle.idle")
IdleIdle ==
    ScriptMode("measure_idle.idle", "idle", OPMODE_IDLE, "measure_idle.wakeup",
               "except")
IdleWakeup ==
    ScriptMode("measure_idle.wakeup", "wakeup", OPMODE_STANDARD,
               "measure_idle.loop", "except")

\* except Exception as e: print(...)
ScriptExcept ==
    /\ pc = "except"
    /\ pc' = "cleanup"
    /\ UNCHANGED <<error, firmware, reading, opModeReg, configReg, tempInReg,
                   rhInReg, gprDelay, busLog, lastCall, lastResult, modeReq,
                   tempReq, rhReq>>

\* ens160.shutdown() after the try statement
ScriptShutdown ==
    ScriptMode("cleanup", "shutdown", OPMODE_DEEP_SLEEP, "exited", "exited")

\* KeyboardInterrupt: inside the try statement it is caught and passed
\* over, anywhere else it ends the program
ScriptInterrupt ==
    /\ pc \in InTry \cup OutsideTry
    /\ pc' = IF pc \in InTry THEN "cleanup" ELSE "exited"
    /\ error' = "KeyboardInterrupt"
    /\ UNCHANGED <<firmware, reading, opModeReg, configReg, tempInReg, rhInReg,
                   gprDelay, busLog, lastCall, lastResult, modeReq, tempReq,
                   rhReq>>

ScriptNext ==
    \/ BringUp
    \/ MeasureSetup
    \/ MeasurePoll
    \/ MeasurePrint
    \/ IrqSetupCall
    \/ IrqWakeup
    \/ IrqPoll
    \/ IrqPrint
    \/ IdleEnter
    \/ IdlePoll
    \/ IdlePrint
    \/ IdleIdle
    \/ IdleWakeup
    \/ ScriptExcept
    \/ ScriptShutdown
    \/ ScriptInterrupt

ScriptSpec == Init /\ [][ScriptNext]_vars

(***************************************************************************)
(* What the claims read off a state.                                       *)
(***************************************************************************)
\* the status byte the last do_measure read
LastStatus == busLog[1].val[1]

\* bit k of a byte
Bit(b, k) == (b \div Pow2(k)) % 2

Polled == pc = "ready" /\ lastCall = "do_measure"

C2_ErrorFlagIsNoData ==
    [][(lastCall' = "do_measure" /\ Bit(LastStatus', 6) = 1)
          => /\ error' = "none"
             /\ lastResult' = FALSE
             /\ busLog' = <<BusOp("rb", REG_STATUS, <<LastStatus'>>)>>
             /\ reading' = reading]_vars

\* a poll that only the error flag keeps from reading fresh data, after a
\* Reading was captured
C2_Witness ==
    /\ Polled
    /\ Bit(LastStatus, 6) = 1
    /\ Bit(LastStatus, 7) = 1
    /\ Bit(LastStatus, 1) = 1
    /\ (LastStatus \div 4) % 4 # 3
    /\ lastResult = FALSE
    /\ error = "none"
    /\ Len(busLog) = 1
    /\ reading # NoReading

(***************************************************************************)
(* C3: a successful bring-up issues, in this order: write reset (0xF0) to  *)
(* the mode register, write Idle (1) to the mode register, read the 16-bit *)
(* identity register, write the get-firmware-version command, read the     *)
(* status register until gpr-fresh is set, read 3 bytes of the GPR-read    *)
(* block, write the interrupt configuration with the enable bit clear,     *)
(* write the encoded 20.0 C (18762) to the temperature-in register, write  *)
(* the encoded 50.0 %RH (25600) to the humidity-in register, write         *)
(* Standard (2) to the mode register; nothing else is written and the mode *)
(* register ends holding Standard.                                         *)
(***************************************************************************)
BringUpLogInOrder(log) ==
    LET n == Len(log)
    IN  /\ n >= 10
        /\ log[1] = BusOp("wb", 16, <<240>>)
        /\ log[2] = BusOp("wb", 16, <<1>>)
        /\ log[3] = BusOp("rw", 0, <<352>>)
        /\ log[4] = BusOp("wb", 18, <<14>>)
        /\ \A i \in 5..(n - 5) :
              /\ log[i].op = "rb"
              /\ log[i].reg = 32
              /\ (log[i].val[1] % 2 = 1) <=> (i = n - 5)
        /\ log[n - 4].op = "rblk"
        /\ log[n - 4].reg = 76
        /\ Len(log[n - 4].val) = 3
        /\ log[n - 3].op = "wb"
        /\ log[n - 3].reg = 17
        /\ log[n - 3].val[1] % 2 = 0
        /\ log[n - 2] = BusOp("ww", 19, <<18762>>)
        /\ log[n - 1] = BusOp("ww", 21, <<25600>>)
        /\ log[n] = BusOp("wb", 16, <<2>>)

C3_BringUpOrder ==
    (pc = "ready" /\ lastCall = "init")
       => /\ BringUpLogInOrder(busLog)
          /\ opModeReg = 2
          /\ configReg % 2 = 0
          /\ tempInReg = 18762
          /\ rhInReg = 25600

\* a bring-up that went through, the chip having answered the third poll
C3_Witness ==
    /\ pc = "ready"
    /\ lastCall = "init"
    /\ error = "none"
    /\ Len(busLog) = 12
    /\ busLog[12].val = <<OPMODE_STANDARD>>

(***************************************************************************)
(* C4: when the identity register read of bring-up returns anything but    *)
(* 0x160, bring-up fails with an error and that read is its last bus       *)
(* operation: no write follows it, so the last mode written is Idle.       *)
(***************************************************************************)
C4_IdentityMismatchStops ==
    \A i \in 1..Len(busLog) :
        (busLog[i].op = "rw" /\ busLog[i].reg = 0 /\ busLog[i].val # <<352>>)
           => /\ pc = "failed"
              /\ error = "ValueError"
              /\ i = Len(busLog)
              /\ opModeReg = 1
              /\ firmware = None

\* a bring-up stopped by the identity 0x161
C4_Witness ==
    /\ pc = "failed"
    /\ Len(busLog) = 3
    /\ busLog[3] = BusOp("rw", REG_PART_ID, <<353>>)
    /\ busLog[2] = BusOp("wb", REG_OP_MODE, <<OPMODE_IDLE>>)

(***************************************************************************)
(* C5: _set_operating_mode called with the reset code 0xF0, or with any    *)
(* code that is not DeepSleep (0), Idle (1) or Standard (2), fails with an *)
(* invalid-input error and writes nothing to the bus: the mode register    *)
(* keeps its value.                                                        *)
(***************************************************************************)
C5_ModeSetRejectsInvalid ==
    [][(lastCall' = "set_operating_mode" /\ modeReq' \notin {0, 1, 2})
          => /\ error' = "ValueError"
             /\ busLog' = <<>>
             /\ opModeReg' = opModeReg]_vars

\* the reset code asked for on a sleeping chip, and refused
C5_Witness ==
    /\ pc = "ready"
    /\ lastCall = "set_operating_mode"
    /\ modeReq = 240
    /\ error = "ValueError"
    /\ busLog = <<>>
    /\ opModeReg = OPMODE_DEEP_SLEEP

(***************************************************************************)
(* C6: the firmware-version wait of bring-up is bounded: when the chip     *)
(* never sets the gpr-fresh status bit after the get-firmware-version      *)
(* command, the wait still ends (bring-up failing with a Timeout) instead  *)
(* of reading the status register forever.                                 *)
(***************************************************************************)
C6_FirmwareWaitEnds ==
    (pc = "wait_poll" /\ gprDelay = Stuck) ~> (pc \notin {"wait_poll", "wait_sleep"})

(***************************************************************************)
(* C7: a do_measure that reads a running, error-free, not Invalid,         *)
(* data-fresh status byte returns True, and with the air-quality block     *)
(* [42, 10, 0, 20, 0] and the reference block [0x00, 0x50, 0x00, 0x64] it  *)
(* stores aqi = 42, tvoc = 10, eco2 = 20 and the decoded reference values. *)
(***************************************************************************)
\* the rational x is within tn/td of n/d
RatNear(x, n, d, tn, td) == Abs(x.n * d - n * x.d) * td <= tn * x.d * d

FreshStatus(b) ==
    /\ Bit(b, 7) = 1
    /\ Bit(b, 6) = 0
    /\ (b \div 4) % 4 # 3
    /\ Bit(b, 1) = 1

ExampleBlocksRead ==
    /\ busLog[2] = BusOp("rblk", 33, <<42, 10, 0, 20, 0>>)
    /\ busLog[3] = BusOp("rblk", 48, <<0, 80, 0, 100>>)

\* C7 as claimed: the poll returns True and stores aqi = 42, tvoc = 10,
\* eco2 = 20, ref_temp about 47.85 C and ref_humidity = 200.0 %
C7_ExampleAsClaimed ==
    (Polled /\ FreshStatus(LastStatus))
       => /\ lastResult = TRUE
          /\ Len(busLog) = 4
          /\ ExampleBlocksRead
                => /\ reading.aqi = <<42>>
                   /\ reading.tvoc = <<10>>
                   /\ reading.eco2 = <<20>>
                   /\ RatNear(reading.ref_temp[1], 4785, 100, 1, 100)
                   /\ reading.ref_humidity[1] = [n |-> 200, d |-> 1]

\* C7 amended: the poll returns True and stores aqi = 42, tvoc = 10,
\* eco2 = 20, ref_temp about 46.85 C (0x5000 / 64 - 273.15) and
\* ref_humidity = 50.0 % (0x6400 / 512)
C7_ExampleDecoded ==
    (Polled /\ FreshStatus(LastStatus))
       => /\ lastResult = TRUE
          /\ Len(busLog) = 4
          /\ ExampleBlocksRead
                => /\ reading.aqi = <<42>>
                   /\ reading.tvoc = <<10>>
                   /\ reading.eco2 = <<20>>
                   /\ RatNear(reading.ref_temp[1], 4685, 100, 1, 100)
                   /\ reading.ref_humidity[1] = [n |-> 50, d |-> 1]

\* the example blocks read by a poll that returned True
C7_Witness ==
    /\ Polled
    /\ FreshStatus(LastStatus)
    /\ lastResult = TRUE
    /\ Len(busLog) = 4
    /\ ExampleBlocksRead
    /\ reading.aqi = <<42>>

(***************************************************************************)
(* C8: the ref_temp and ref_humidity accessors.                            *)
(***************************************************************************)
\* C8 as claimed: on the constructed object (whose bring-up has set 20.0 C
\* and 50.0 %RH) each accessor returns the value its setter was last given,
\* also before any poll has returned new data
C8_AccessorReturnsRequested ==
    pc = "ready" => (ref_temp = tempReq /\ ref_humidity = rhReq)

\* C8 amended: the accessors return None until a poll returns new data and
\* from then on the values that poll decoded from the chip's reference
\* block (word / 64 - 273.15 and word / 512); a setter call, in bring-up or
\* later, changes neither
C8_AccessorReturnsDecoded ==
    /\ (pc = "reset" => (ref_temp = None /\ ref_humidity = None))
    /\ [][/\ lastCall' \in {"init", "set_ref_temp", "set_ref_humidity"}
             => (ref_temp' = ref_temp /\ ref_humidity' = ref_humidity)
          /\ (lastCall' = "do_measure" /\ lastResult')
             => LET rp == busLog'[3].val
                    t == rp[1] + 256 * rp[2]
                    h == rp[3] + 256 * rp[4]
                IN  /\ ref_temp'[1].n * 6400 = (100 * t - 1748160) * ref_temp'[1].d
                    /\ ref_humidity'[1].n * 512 = h * ref_humidity'[1].d]_vars

\* 25.5 C requested after a poll captured a Reading: the accessor still
\* returns what the poll decoded
C8_Witness ==
    /\ pc = "ready"
    /\ lastCall = "set_ref_temp"
    /\ tempReq = Some([n |-> 51, d |-> 2])
    /\ tempInReg = 19114
    /\ ref_temp # None
    /\ ref_temp # tempReq

(***************************************************************************)
(* C9: a calibration setter given a value whose encoded word does not fit  *)
(* in 16 bits is rejected with an invalid-input error and writes nothing   *)
(* to the bus, so every word written to the temperature-in and             *)
(* humidity-in registers is in 0..65535.                                   *)
(***************************************************************************)
C9_SetterRejectsOutOfRange ==
    /\ \A i \in 1..Len(busLog) :
          busLog[i].op = "ww" => busLog[i].val[1] \in 0..65535
    /\ (lastCall = "set_ref_temp" /\ tempReq = Some([n |-> 1000, d |-> 1]))
          => (error = "ValueError" /\ busLog = <<>>)
    /\ (lastCall = "set_ref_humidity" /\ rhReq = Some([n |-> 200, d |-> 1]))
          => (error = "ValueError" /\ busLog = <<>>)

(***************************************************************************)
(* C10: the reset code 0xF0 is written to the mode register only as the    *)
(* first bus operation of bring-up, and the mode write after it is Idle;   *)
(* once bring-up has succeeded, the last value written to the mode         *)
(* register is DeepSleep (0), Idle (1) or Standard (2) and is the code of  *)
(* the most recent mode operation called (shutdown 0, idle 1, wakeup 2).   *)
(***************************************************************************)
C10_ResetIsNoRestState ==
    /\ \A i \in 1..Len(busLog) :
          (busLog[i].op = "wb" /\ busLog[i].reg = 16 /\ busLog[i].val = <<240>>)
             => /\ lastCall = "init"
                /\ i = 1
                /\ Len(busLog) >= 2 => busLog[2] = BusOp("wb", 16, <<1>>)
    /\ opModeReg = 240 => pc = "idle"
    /\ pc = "ready"
          => /\ opModeReg \in {0, 1, 2}
             /\ modeReq \in {0, 1, 2} => opModeReg = modeReq
             /\ lastCall = "shutdown" => modeReq = 0
             /\ lastCall = "idle" => modeReq = 1
             /\ lastCall = "wakeup" => modeReq = 2
             /\ lastCall = "init" => modeReq = 2

\* the chip put to sleep by shutdown(), then polled
C10_Witness ==
    /\ pc = "ready"
    /\ lastCall = "do_measure"
    /\ modeReq = OPMODE_DEEP_SLEEP
    /\ opModeReg = OPMODE_DEEP_SLEEP
    /\ reading # NoReading

C16_PollOnlyReads ==
    [][lastCall' = "do_measure"
          => /\ busLog'[1].op = "rb"
             /\ busLog'[1].reg = 32
             /\ IF lastResult'
                THEN /\ Len(busLog') = 4
                     /\ busLog'[2].op = "rblk"
                     /\ busLog'[2].reg = 33
                     /\ Len(busLog'[2].val) = 5
                     /\ busLog'[3].op = "rblk"
                     /\ busLog'[3].reg = 48
                     /\ Len(busLog'[3].val) = 4
                     /\ busLog'[4].op = "rb"
                     /\ busLog'[4].reg = 56
                ELSE Len(busLog') = 1
             /\ opModeReg' = opModeReg
             /\ configReg' = configReg
             /\ tempInReg' = tempInReg
             /\ rhInReg' = rhInReg]_vars

\* a poll that returned True on the chip as bring-up left it
C16_Witness ==
    /\ Polled
    /\ lastResult = TRUE
    /\ Len(busLog) = 4
    /\ busLog[4] = BusOp("rb", REG_DATA_MISR, <<165>>)
    /\ opModeReg = OPMODE_STANDARD
    /\ configReg = 98

(***************************************************************************)
(* C17: a poll that returns True stores aqi = b0, tvoc = b1 + 256*b2,      *)
(* eco2 = b3 + 256*b4 of the air-quality block and the reference values    *)
(* of the words r0 + 256*r1 and r2 + 256*r3 of the reference block; after  *)
(* any polls aqi is in 0..255 and tvoc, eco2 and both raw reference words  *)
(* are in 0..65535.                                                        *)
(***************************************************************************)
\* the word w with w / 64 - 273.15 = x, and the word w with w / 512 = x
RawTemperature(x) == (x.n * 6400 + 1748160 * x.d) \div (100 * x.d)
RawHumidity(x) == (x.n * 512) \div x.d

C17_LittleEndianWords ==
    /\ (Polled /\ lastResult)
          => LET b == busLog[2].val
                 r == busLog[3].val
             IN  /\ reading.aqi = <<b[1]>>
                 /\ reading.tvoc = <<b[2] + 256 * b[3]>>
                 /\ reading.eco2 = <<b[4] + 256 * b[5]>>
                 /\ RawTemperature(ref_temp[1]) = r[1] + 256 * r[2]
                 /\ RawHumidity(ref_humidity[1]) = r[3] + 256 * r[4]
    /\ reading # NoReading
          => /\ reading.aqi[1] \in 0..255
             /\ reading.tvoc[1] \in 0..65535
             /\ reading.eco2[1] \in 0..65535
             /\ RawTemperature(ref_temp[1]) \in 0..65535
             /\ RawTemperature(ref_temp[1]) * 100 * ref_temp[1].d
                   = ref_temp[1].n * 6400 + 1748160 * ref_temp[1].d
             /\ RawHumidity(ref_humidity[1]) \in 0..65535
             /\ RawHumidity(ref_humidity[1]) * ref_humidity[1].d
                   = ref_humidity[1].n * 512

\* the block <<255, 255, 255, 52, 18>> stored: tvoc 0xFFFF, eco2 0x1234
C17_Witness ==
    /\ Polled
    /\ lastResult = TRUE
    /\ reading.aqi = <<255>>
    /\ reading.tvoc = <<65535>>
    /\ reading.eco2 = <<4660>>
    /\ RawTemperature(ref_temp[1]) = 65535
    /\ RawHumidity(ref_humidity[1]) = 1

(***************************************************************************)
(* C19: the stored validity class is unset or Normal, WarmUp or            *)
(* InitialStartup, never Invalid (3); so is_warm_up and is_initial_startup *)
(* are never both true, both are false until the first poll returns True,  *)
(* and they keep the class of the last captured Reading while later polls  *)
(* return False.                                                           *)
(***************************************************************************)
ValidityStored ==
    /\ reading.validity \in {<<>>, <<0>>, <<1>>, <<2>>}
    /\ ~(is_warm_up /\ is_initial_startup)
    /\ reading.validity = <<>> => (~is_warm_up /\ ~is_initial_startup)
    /\ is_warm_up <=> reading.validity = <<1>>
    /\ is_initial_startup <=> reading.validity = <<2>>

C19_ValidityNeverInvalid ==
    /\ ValidityStored
    /\ reading.validity = <<>>
    /\ [][/\ ValidityStored'
          /\ (lastCall' = "do_measure" /\ lastResult')
                => reading'.validity = <<(LastStatus' \div 4) % 4>>
          /\ ~(lastCall' = "do_measure" /\ lastResult')
                => reading'.validity = reading.validity]_vars

\* a WarmUp Reading kept through a later poll that saw the Invalid class
C19_Witness ==
    /\ Polled
    /\ lastResult = FALSE
    /\ (LastStatus \div 4) % 4 = 3
    /\ Bit(LastStatus, 7) = 1
    /\ Bit(LastStatus, 1) = 1
    /\ is_warm_up
    /\ ~is_initial_startup

(***************************************************************************)
(* C15: when one of the three data reads of a poll (the 5-byte air-quality *)
(* block, the 4-byte reference block, the checksum byte) fails with a      *)
(* transport error, do_measure lets that error out and has modified no     *)
(* field of the stored Reading.                                            *)
(***************************************************************************)
DataReadRaised(log) ==
    /\ Len(log) >= 2
    /\ log[Len(log)].op = "raise"
    /\ log[Len(log)].reg \in {33, 48, 56}

C15_FailedPollKeepsReading ==
    [][(lastCall' = "do_measure" /\ DataReadRaised(busLog'))
          => (error' = "OSError" /\ reading' = reading)]_vars

\* the checksum read failed after both blocks were read, and the stored
\* Reading is still the earlier one, whole
C15_Witness ==
    /\ Polled
    /\ error = "OSError"
    /\ Len(busLog) = 4
    /\ busLog[4] = Raised(REG_DATA_MISR)
    /\ busLog[2].val = <<255, 255, 255, 52, 18>>
    /\ reading.aqi = <<42>>
    /\ reading.tvoc = <<10>>
    /\ reading.eco2 = <<20>>
    /\ reading.ref_humidity = <<[n |-> 50, d |-> 1]>>

(***************************************************************************)
(* C20: a bring-up that fails after its reset write went through (on an    *)
(* identity mismatch, or on a transport error in any later bus operation   *)
(* but the final wake-up write) issues no bus operation after the failure  *)
(* and never writes Standard: the last mode written is Reset or Idle.      *)
(***************************************************************************)
C20_FailedBringUpNotRunning ==
    (lastCall = "init" /\ Len(busLog) >= 2
         /\ busLog[1] = BusOp("wb", 16, <<240>>))
       => /\ \A i \in 1..Len(busLog) :
                (\/ busLog[i].op = "raise"
                 \/ (busLog[i].op = "rw" /\ busLog[i].val # <<352>>))
                   => (i = Len(busLog) /\ pc = "failed" /\ error # "none")
          /\ (pc = "failed" /\ ~(busLog[Len(busLog)] = Raised(16) /\ Len(busLog) > 2))
                => /\ opModeReg \in {240, 1}
                   /\ opModeReg = 240 <=> Len(busLog) = 2
                   /\ \A i \in 1..Len(busLog) :
                         busLog[i] # BusOp("wb", 16, <<2>>)

\* the write of the default temperature raised: the chip stays in Idle
C20_Witness ==
    /\ pc = "failed"
    /\ error = "OSError"
    /\ busLog[Len(busLog)] = Raised(REG_TEMP_IN)
    /\ busLog[Len(busLog) - 1].reg = REG_CONFIG
    /\ opModeReg = OPMODE_IDLE
    /\ firmware # None

(***************************************************************************)
(* C12: temperature round trip.  For every Celsius value c of the range    *)
(* whose word w = round((c + 273.15) * 64) fits in 16 bits, the decode of  *)
(* do_measure, (w / 64) - 273.15, is within 1/64 degree of c.              *)
(***************************************************************************)
C12_TemperatureRoundTrip ==
    (lastCall = "do_measure" /\ reading # NoReading
         /\ TemperatureWord(tempReq[1]) \in Word16)
       => /\ busLog[3].val[1] + 256 * busLog[3].val[2] = TemperatureWord(tempReq[1])
          /\ RatNear(ref_temp[1], tempReq[1].n, tempReq[1].d, 1, 64)

\* a tie of round(): 649/640 degree is set, and what comes back is off by
\* exactly 1/128 degree
C12_Witness ==
    /\ lastCall = "do_measure"
    /\ tempReq = <<[n |-> 649, d |-> 640]>>
    /\ ref_temp # None
    /\ ref_temp # tempReq
    /\ RatNear(ref_temp[1], 649, 640, 1, 128)
    /\ ~RatNear(ref_temp[1], 649, 640, 1, 129)

(***************************************************************************)
(* C13: humidity round trip.  For every percent value h in [0, 100], with  *)
(* w = round(h * 512), the decode of do_measure, w / 512, is within 1/512  *)
(* % of h.                                                                 *)
(***************************************************************************)
C13_HumidityRoundTrip ==
    (lastCall = "do_measure" /\ reading # NoReading
         /\ rhReq[1].n >= 0 /\ rhReq[1].n <= 100 * rhReq[1].d)
       => /\ busLog[3].val[3] + 256 * busLog[3].val[4] = HumidityWord(rhReq[1])
          /\ RatNear(ref_humidity[1], rhReq[1].n, rhReq[1].d, 1, 512)

\* a tie of round(): 51201/1024 % is set, and what comes back is off by
\* exactly 1/1024 %
C13_Witness ==
    /\ lastCall = "do_measure"
    /\ rhReq = <<[n |-> 51201, d |-> 1024]>>
    /\ ref_humidity # None
    /\ ref_humidity # rhReq
    /\ RatNear(ref_humidity[1], 51201, 1024, 1, 1024)
    /\ ~RatNear(ref_humidity[1], 51201, 1024, 1, 1025)

(***************************************************************************)
(* C11: in the sample programs, once the driver object is constructed,     *)
(* every way out of the program, a KeyboardInterrupt and an error raised   *)
(* by a driver call included, ends with shutdown() writing DeepSleep to    *)
(* the mode register: a program that has exited called shutdown() last.    *)
(***************************************************************************)
C11_ExitAfterShutdown == pc = "exited" => lastCall = "shutdown"

(***************************************************************************)
(* C18: every sample program prints a reading, or reads the fields of the  *)
(* stored Reading, only when the do_measure() call just before returned    *)
(* True.                                                                   *)
(***************************************************************************)
C18_PrintsOnlyFresh == lastCall = "getters" => lastResult = TRUE

=============================================================================
